---- MODULE Spec2Model ----
(***************************************************************************)
(* Model of src/main.py: the CircularCamera widget.  Startup              *)
(* (CircularCamera.__init__), the timer handler update_frame, closeEvent  *)
(* and the end of the Qt event loop, with the camera, the wall clock and  *)
(* the segmentation runtime as the environment.                           *)
(***************************************************************************)
EXTENDS Integers, Sequences, FiniteSets, TLC

(* ------------------------------ bounds --------------------------------- *)
\* side of the square output image (main.py:26 sets 300; the model scales it)
window_size == 2
\* raw-frame colour patterns offered by the camera: seeds 0..MaxSeed
MaxSeed == 1
\* category-mask patterns offered by the runtime: 0..MaxPat
MaxPat == 2
\* the wall clock is kept in units of 1/TicksPerMs millisecond, 0..MaxClock
TicksPerMs == 2
MaxClock == 2
\* close events delivered to the widget
MaxCloseEvents == 2

(* ------------------------------ values --------------------------------- *)
None == -1
NoImage == [format |-> "none"]
Min(a, b) == IF a < b THEN a ELSE b

\* for idx in [0, 1, 2]
ProbeOrder == <<0, 1, 2>>
Devices == {ProbeOrder[i] : i \in 1..Len(ProbeOrder)}

\* BGR colours a camera pixel can take
Palette == << <<0, 0, 0>>, <<255, 128, 1>>, <<10, 200, 77>> >>

Pix(h, w) == (0..(h - 1)) \X (0..(w - 1))

VARIABLES
    pc,             \* "setup_segmenter", "probe", "check_cap", "running", "exited", "terminated"
    HAS_MEDIAPIPE,  \* module-level import result
    model_exists,   \* os.path.exists(self.model_path)
    construct,      \* "not_attempted", "ok", "threw": create_from_options
    use_mediapipe,  \* self.use_mediapipe
    segmenter,      \* "unset" (no attribute), "open", "closed"
    segCloses,      \* number of segmenter.close() calls
    idx,            \* position in ProbeOrder of the next index to probe
    probeResult,    \* per device: "unprobed", "unopened", "noframe", "ok"
    camOpen,        \* devices currently held open
    camReleases,    \* per device: number of release() calls
    cap,            \* self.cap: None or the kept device
    timerStarted,   \* self.timer.start was called
    current_frame,  \* self.current_frame: the buffer the display surface shows
    lastFrame,      \* the normalized frame of the last tick that had one
    lastMask,       \* the refined mask of the last tick that computed one
    lastTick,       \* what the last update_frame did
    failed,         \* an inference call has raised in this run
    clock,          \* wall clock, in 1/TicksPerMs ms
    tsLast,         \* timestamp_ms of the last segment_for_video call
    closeEvents     \* number of closeEvent deliveries

vars == <<pc, HAS_MEDIAPIPE, model_exists, construct, use_mediapipe, segmenter,
          segCloses, idx, probeResult, camOpen, camReleases, cap, timerStarted,
          current_frame, lastFrame, lastMask, lastTick, failed, clock, tsLast,
          closeEvents>>

tickVars == <<current_frame, lastFrame, lastMask, lastTick, failed, tsLast>>

NoTick == [ran |-> FALSE, ret |-> FALSE, called |-> FALSE, ts |-> None,
           prevTs |-> None, outcome |-> "none", format |-> "none", emits |-> 0,
           repaint |-> FALSE, afterClose |-> FALSE, failedBefore |-> FALSE,
           enabledBefore |-> FALSE]

(* ------------------------------ startup -------------------------------- *)
Init ==
    /\ pc = "setup_segmenter"
    /\ HAS_MEDIAPIPE \in BOOLEAN
    /\ model_exists \in BOOLEAN
    /\ construct = "not_attempted"
    /\ use_mediapipe = FALSE
    /\ segmenter = "unset"
    /\ segCloses = 0
    /\ idx = 1
    /\ probeResult = [d \in Devices |-> "unprobed"]
    /\ camOpen = {}
    /\ camReleases = [d \in Devices |-> 0]
    /\ cap = None
    /\ timerStarted = FALSE
    /\ current_frame = NoImage
    /\ lastFrame = NoImage
    /\ lastMask = NoImage
    /\ lastTick = NoTick
    /\ failed = FALSE
    /\ clock = 0
    /\ tsLast = None
    /\ closeEvents = 0

InitEnabled_NoTry(has, exists, constructOk) == has /\ exists
\* the value of use_mediapipe after lines 29-48
InitEnabled(has, exists, constructOk) == has /\ exists /\ constructOk

\* __init__, lines 25-48: background removal setup
setup_segmenter ==
    /\ pc = "setup_segmenter"
    /\ \E constructOk \in BOOLEAN :
        /\ construct' = IF HAS_MEDIAPIPE /\ model_exists
                        THEN (IF constructOk THEN "ok" ELSE "threw")
                        ELSE "not_attempted"
        /\ segmenter' = IF HAS_MEDIAPIPE /\ model_exists /\ constructOk
                        THEN "open" ELSE "unset"
        /\ use_mediapipe' = InitEnabled(HAS_MEDIAPIPE, model_exists, constructOk)
    /\ pc' = "probe"
    /\ UNCHANGED <<HAS_MEDIAPIPE, model_exists, segCloses, idx, probeResult,
                   camOpen, camReleases, cap, timerStarted, clock, closeEvents>>
    /\ UNCHANGED tickVars

KeepCamera_NoRead(opened, ret) == opened
\* lines 59-61: the device is kept when it opened and its probe read gave a frame
KeepCamera(opened, ret) == opened /\ ret

\* __init__, lines 57-66: one iteration of the probing loop
probe_camera ==
    /\ pc = "probe"
    /\ idx <= Len(ProbeOrder)
    /\ LET d == ProbeOrder[idx] IN
       \E opened \in BOOLEAN, ret \in BOOLEAN :
        /\ probeResult' = [probeResult EXCEPT ![d] =
                              IF ~opened THEN "unopened"
                              ELSE IF ret THEN "ok" ELSE "noframe"]
        /\ IF KeepCamera(opened, ret)
           THEN /\ cap' = d
                /\ camOpen' = camOpen \cup {d}
                /\ camReleases' = camReleases
                /\ pc' = "check_cap"
                /\ idx' = idx
           ELSE /\ cap' = cap
                /\ camOpen' = camOpen
                /\ camReleases' = IF opened
                                  THEN [camReleases EXCEPT ![d] = @ + 1]
                                  ELSE camReleases
                /\ idx' = idx + 1
                /\ pc' = IF idx = Len(ProbeOrder) THEN "check_cap" ELSE "probe"
    /\ UNCHANGED <<HAS_MEDIAPIPE, model_exists, construct, use_mediapipe,
                   segmenter, segCloses, timerStarted, clock, closeEvents>>
    /\ UNCHANGED tickVars

\* __init__, lines 68-77: sys.exit(1) without a camera, else start the timer
check_cap ==
    /\ pc = "check_cap"
    /\ IF cap = None
       THEN /\ pc' = "exited"
            /\ timerStarted' = FALSE
       ELSE /\ pc' = "running"
            /\ timerStarted' = TRUE
    /\ UNCHANGED <<HAS_MEDIAPIPE, model_exists, construct, use_mediapipe,
                   segmenter, segCloses, idx, probeResult, camOpen, camReleases,
                   cap, clock, closeEvents>>
    /\ UNCHANGED tickVars

(* --------------------------- image pipeline ---------------------------- *)
\* frames the camera can deliver: the smaller side equals window_size, so the
\* resize of line 93 keeps the pixel grid
RawShapes == {<<window_size, window_size>>,
              <<window_size, window_size + 2>>,
              <<window_size + 1, window_size>>}
Seeds == 0..MaxSeed

RawFrame(h, w, seed) ==
    [h |-> h, w |-> w,
     px |-> [p \in Pix(h, w) |->
               Palette[((p[2] + 2 * p[1] + seed) % Len(Palette)) + 1]]]

\* line 83: cv2.flip(frame, 1)
flip(f) ==
    [h |-> f.h, w |-> f.w,
     px |-> [p \in Pix(f.h, f.w) |-> f.px[<<p[1], f.w - 1 - p[2]>>]]]

\* lines 86-90: centre crop to the largest square
crop(f) ==
    LET min_dim == Min(f.h, f.w)
        start_x == (f.w - min_dim) \div 2
        start_y == (f.h - min_dim) \div 2
    IN [h |-> min_dim, w |-> min_dim,
        px |-> [p \in Pix(min_dim, min_dim) |->
                  f.px[<<p[1] + start_y, p[2] + start_x>>]]]

\* line 93: cv2.resize to (size, size); a source of that size is copied
resize(f, size) ==
    [h |-> size, w |-> size,
     px |-> [p \in Pix(size, size) |->
               f.px[<<(p[1] * f.h) \div size, (p[2] * f.w) \div size>>]]]

\* lines 82-93
normalize(raw) == resize(crop(flip(raw)), window_size)

\* line 151: cv2.COLOR_BGR2RGB
BGR2RGB(c) == <<c[3], c[2], c[1]>>
\* line 110: cv2.COLOR_BGR2RGBA, alpha 255
BGR2RGBA(c) == <<c[3], c[2], c[1], 255>>

\* category masks the runtime can return: shape (h, w), pattern k, class ids
MaskShapes == {<<window_size, window_size>>,
               <<1, window_size>>,
               <<window_size + 1, window_size>>}
CatPairs == {<<1, 0>>, <<0, 255>>}
Patterns == 0..MaxPat

CategoryMask(h, w, k, pair) ==
    [h |-> h, w |-> w,
     px |-> [p \in Pix(h, w) |->
               IF p[1] + p[2] < k THEN pair[1] ELSE pair[2]]]

\* line 134: (category_mask <= 0.5).astype(np.uint8) * 255
binarize(m) ==
    [h |-> m.h, w |-> m.w,
     px |-> [p \in Pix(m.h, m.w) |-> IF 2 * m.px[p] <= 1 THEN 255 ELSE 0]]

\* cv2 BORDER_REFLECT_101 index
Reflect101(i, n) ==
    IF n = 1 THEN 0
    ELSE LET period == 2 * (n - 1)
             r == i % period
         IN IF r < n THEN r ELSE period - r

\* the 5-tap kernel cv2 uses for ksize 5, sigma 0: (1, 4, 6, 4, 1) / 16
GaussRow(m, y, x) ==
      1 * m.px[<<y, Reflect101(x - 2, m.w)>>]
    + 4 * m.px[<<y, Reflect101(x - 1, m.w)>>]
    + 6 * m.px[<<y, Reflect101(x, m.w)>>]
    + 4 * m.px[<<y, Reflect101(x + 1, m.w)>>]
    + 1 * m.px[<<y, Reflect101(x + 2, m.w)>>]

\* line 137: cv2.GaussianBlur(mask, (5, 5), 0) on uint8, rounded to nearest
GaussianBlur(m) ==
    [h |-> m.h, w |-> m.w,
     px |-> [p \in Pix(m.h, m.w) |->
               (  1 * GaussRow(m, Reflect101(p[1] - 2, m.h), p[2])
                + 4 * GaussRow(m, Reflect101(p[1] - 1, m.h), p[2])
                + 6 * GaussRow(m, Reflect101(p[1], m.h), p[2])
                + 4 * GaussRow(m, Reflect101(p[1] + 1, m.h), p[2])
                + 1 * GaussRow(m, Reflect101(p[1] + 2, m.h), p[2])
                + 128) \div 256]]

\* lines 134-137
refine(cat) == GaussianBlur(binarize(cat))

\* line 139: numpy broadcasting of mask onto the (h, w) alpha plane
Broadcastable(m, f) == (m.h = f.h \/ m.h = 1) /\ (m.w = f.w \/ m.w = 1)
MaskAt(m, p) == m.px[<<IF m.h = 1 THEN 0 ELSE p[1], IF m.w = 1 THEN 0 ELSE p[2]>>]

RoundDiv255(n) == (2 * n + 255) \div 510

compose_rgba_premultiplied(frame, mask) ==
    [format |-> "RGBA", h |-> frame.h, w |-> frame.w,
     px |-> [p \in Pix(frame.h, frame.w) |->
               LET c == BGR2RGBA(frame.px[p])
                   a == MaskAt(mask, p)
               IN <<RoundDiv255(c[1] * a), RoundDiv255(c[2] * a),
                    RoundDiv255(c[3] * a), a>>]]
\* lines 110, 139-144: RGBA copy of the frame with the mask as its alpha plane
compose_rgba(frame, mask) ==
    [format |-> "RGBA", h |-> frame.h, w |-> frame.w,
     px |-> [p \in Pix(frame.h, frame.w) |->
               LET c == BGR2RGBA(frame.px[p])
               IN <<c[1], c[2], c[3], MaskAt(mask, p)>>]]

\* lines 151-155: opaque RGB copy of the frame
compose_rgb(frame) ==
    [format |-> "RGB", h |-> frame.h, w |-> frame.w,
     px |-> [p \in Pix(frame.h, frame.w) |-> BGR2RGB(frame.px[p])]]

\* the function f over the finite set D, with every value computed
RECURSIVE Tabulate(_, _)
Tabulate(f, D) ==
    LET x == CHOOSE y \in D : TRUE
    IN IF D = {x} THEN (x :> f[x]) ELSE (x :> f[x]) @@ Tabulate(f, D \ {x})

Image(f) == [h |-> f.h, w |-> f.w, px |-> Tabulate(f.px, Pix(f.h, f.w))]

\* the normalized frames and refined masks of the inputs, computed once
FrameInputs == RawShapes \X Seeds
NormalizedFrames ==
    Tabulate([in \in FrameInputs |->
                Image(normalize(RawFrame(in[1][1], in[1][2], in[2])))],
             FrameInputs)
MaskInputs == MaskShapes \X Patterns \X CatPairs
RefinedMasks ==
    Tabulate([in \in MaskInputs |->
                Image(refine(Image(
                    CategoryMask(in[1][1], in[1][2], in[2], in[3]))))],
             MaskInputs)

(* ------------------------------ the tick ------------------------------- *)
CapRead_IgnoringRelease(isOpen, envRet) == envRet
\* line 80: self.cap.read(); a released VideoCapture returns (False, None)
CapRead(isOpen, envRet) == isOpen /\ envRet

\* line 103: int(time.time() * 1000)
timestamp_ms(t) == t \div TicksPerMs

on_runtime_error_keep == TRUE
\* line 147: the except branch assigns self.use_mediapipe = False
on_runtime_error == FALSE

NormalMode_ElseBranch(useBefore, useAfter) == ~useBefore
\* line 149: if not self.use_mediapipe, evaluated after the try block
NormalMode(useBefore, useAfter) == ~useAfter

RepaintRequested_Always(ret) == TRUE
\* line 157: self.update() sits inside `if ret`
RepaintRequested(ret) == ret

DefaultMaskInput == CHOOSE in \in MaskInputs : TRUE

\* lines 82-157: the body of `if ret` for one captured frame
FrameTick(frameIn, raises, maskIn) ==
    LET frame == NormalizedFrames[frameIn]
        called == use_mediapipe
        mask == RefinedMasks[maskIn]
        outcome == IF ~called THEN "none"
                   ELSE IF raises THEN "inference_error"
                   ELSE IF ~Broadcastable(mask, frame) THEN "shape_mismatch"
                   ELSE "ok"
        useAfter == IF called /\ outcome # "ok" THEN on_runtime_error
                    ELSE use_mediapipe
        normal == NormalMode(use_mediapipe, useAfter)
    IN /\ use_mediapipe' = useAfter
       /\ failed' = (failed \/ outcome = "inference_error")
       /\ tsLast' = IF called THEN timestamp_ms(clock) ELSE tsLast
       /\ lastFrame' = frame
       /\ lastMask' = IF outcome = "ok" THEN mask ELSE NoImage
       /\ current_frame' = IF normal THEN compose_rgb(frame)
                           ELSE IF outcome = "ok" THEN compose_rgba(frame, mask)
                           ELSE current_frame
       /\ lastTick' = [ran |-> TRUE, ret |-> TRUE, called |-> called,
                       ts |-> IF called THEN timestamp_ms(clock) ELSE None,
                       prevTs |-> IF called THEN tsLast ELSE None,
                       outcome |-> outcome,
                       format |-> IF normal THEN "RGB"
                                  ELSE IF outcome = "ok" THEN "RGBA" ELSE "none",
                       emits |-> (IF outcome = "ok" THEN 1 ELSE 0)
                                 + (IF normal THEN 1 ELSE 0),
                       repaint |-> RepaintRequested(TRUE),
                       afterClose |-> closeEvents > 0,
                       failedBefore |-> failed,
                       enabledBefore |-> use_mediapipe]

\* lines 79-157: the timer handler
update_frame ==
    /\ pc = "running"
    /\ timerStarted
    /\ \E envRet \in BOOLEAN :
        IF ~CapRead(cap \in camOpen, envRet)
        THEN /\ lastTick' = [NoTick EXCEPT !.ran = TRUE,
                                           !.repaint = RepaintRequested(FALSE),
                                           !.afterClose = closeEvents > 0,
                                           !.failedBefore = failed,
                                           !.enabledBefore = use_mediapipe]
             /\ lastFrame' = NoImage
             /\ lastMask' = NoImage
             /\ UNCHANGED <<use_mediapipe, failed, tsLast, current_frame>>
        ELSE \E frameIn \in FrameInputs :
                IF use_mediapipe
                THEN \/ FrameTick(frameIn, TRUE, DefaultMaskInput)
                     \/ \E maskIn \in MaskInputs :
                            FrameTick(frameIn, FALSE, maskIn)
                ELSE FrameTick(frameIn, FALSE, DefaultMaskInput)
    /\ UNCHANGED <<pc, HAS_MEDIAPIPE, model_exists, construct, segmenter,
                   segCloses, idx, probeResult, camOpen, camReleases, cap,
                   timerStarted, clock, closeEvents>>

(* --------------------------- close and exit ---------------------------- *)
\* lines 185-190
closeEvent ==
    /\ pc = "running"
    /\ closeEvents < MaxCloseEvents
    /\ closeEvents' = closeEvents + 1
    /\ IF segmenter # "unset"
       THEN /\ segmenter' = "closed"
            /\ segCloses' = segCloses + 1
       ELSE UNCHANGED <<segmenter, segCloses>>
    /\ IF cap # None /\ cap \in camOpen
       THEN /\ camOpen' = camOpen \ {cap}
            /\ camReleases' = [camReleases EXCEPT ![cap] = @ + 1]
       ELSE UNCHANGED <<camOpen, camReleases>>
    /\ UNCHANGED <<pc, HAS_MEDIAPIPE, model_exists, construct, use_mediapipe,
                   idx, probeResult, cap, timerStarted, clock>>
    /\ UNCHANGED tickVars

\* line 196: app.exec_() returns once the closed window was the last one
app_exit ==
    /\ pc = "running"
    /\ closeEvents > 0
    /\ pc' = "terminated"
    /\ UNCHANGED <<HAS_MEDIAPIPE, model_exists, construct, use_mediapipe,
                   segmenter, segCloses, idx, probeResult, camOpen, camReleases,
                   cap, timerStarted, clock, closeEvents>>
    /\ UNCHANGED tickVars

(* ----------------------------- wall clock ------------------------------ *)
\* time.time() between two reads: time passes
clock_advance ==
    /\ pc = "running"
    /\ \E d \in 1..TicksPerMs :
        /\ clock + d <= MaxClock
        /\ clock' = clock + d
    /\ UNCHANGED <<pc, HAS_MEDIAPIPE, model_exists, construct, use_mediapipe,
                   segmenter, segCloses, idx, probeResult, camOpen, camReleases,
                   cap, timerStarted, closeEvents>>
    /\ UNCHANGED tickVars

\* time.time() is the system wall clock: an adjustment can step it back
clock_set_back ==
    /\ pc = "running"
    /\ \E d \in 1..TicksPerMs :
        /\ clock - d >= 0
        /\ clock' = clock - d
    /\ UNCHANGED <<pc, HAS_MEDIAPIPE, model_exists, construct, use_mediapipe,
                   segmenter, segCloses, idx, probeResult, camOpen, camReleases,
                   cap, timerStarted, closeEvents>>
    /\ UNCHANGED tickVars

Next ==
    \/ setup_segmenter
    \/ probe_camera
    \/ check_cap
    \/ update_frame
    \/ closeEvent
    \/ app_exit
    \/ clock_advance
    \/ clock_set_back

Spec == Init /\ [][Next]_vars

(* ------------------------------ properties ----------------------------- *)
OutPix == Pix(window_size, window_size)

\* C1: once an inference call has raised, use_mediapipe is False from then on;
\* every later tick makes no segment_for_video call and, when it emits, emits
\* the opaque RGB buffer.
C1_DisabledAfterInferenceError ==
    /\ failed => ~use_mediapipe
    /\ lastTick.failedBefore =>
          /\ ~lastTick.enabledBefore
          /\ ~lastTick.called
          /\ lastTick.format # "RGBA"
          /\ lastTick.ret => (lastTick.format = "RGB" /\ current_frame.format = "RGB")

C1_Witness ==
    /\ lastTick.failedBefore
    /\ lastTick.ret
    /\ lastTick.format = "RGB"
    /\ construct = "ok"

\* C2: after startup, and before any tick, use_mediapipe is True exactly when
\* the import succeeded, the model file exists and create_from_options did not
\* throw; the only startup exit is the one for a missing camera.
C2_EnabledIffRuntimeAvailable ==
    /\ (pc # "setup_segmenter" /\ ~lastTick.ran) =>
          (use_mediapipe <=> (HAS_MEDIAPIPE /\ model_exists /\ construct = "ok"))
    /\ pc = "exited" =>
          (cap = None /\ \A d \in Devices : probeResult[d] \in {"unopened", "noframe"})

C2_Witness ==
    /\ pc = "running"
    /\ ~lastTick.ran
    /\ construct = "threw"
    /\ ~use_mediapipe

\* C3: an update_frame whose camera read gives no frame calls no segmentation,
\* emits nothing, requests no repaint, and leaves current_frame and
\* use_mediapipe as they were.
C3_EmptyCaptureSkipsTick ==
    [][(lastTick'.ran /\ ~lastTick'.ret) =>
          /\ ~lastTick'.called
          /\ lastTick'.emits = 0
          /\ ~lastTick'.repaint
          /\ current_frame' = current_frame
          /\ use_mediapipe' = use_mediapipe
          /\ tsLast' = tsLast]_vars

C3_Witness ==
    /\ lastTick.ran
    /\ ~lastTick.ret
    /\ ~lastTick.afterClose
    /\ use_mediapipe
    /\ current_frame.format = "RGBA"

\* C4: the timestamp_ms of every segment_for_video call is strictly greater
\* than that of the call before it.
C4_TimestampsStrictlyIncreasing ==
    (lastTick.called /\ lastTick.prevTs # None) => lastTick.ts > lastTick.prevTs

\* C5: no resource is released twice, and when the process has ended (sys.exit
\* at startup, or the event loop returning after close) the segmenter, if it was
\* constructed, was closed once and every opened camera was released once.
C5_ReleasedExactlyOnce ==
    /\ segCloses <= 1
    /\ \A d \in Devices : camReleases[d] <= 1
    /\ pc \in {"exited", "terminated"} =>
          /\ segmenter # "unset" => segCloses = 1
          /\ \A d \in Devices :
                probeResult[d] \in {"noframe", "ok"} => camReleases[d] = 1

C7_CameraSelection ==
    /\ \A d \in Devices, e \in Devices :
          (d < e /\ probeResult[e] # "unprobed") => probeResult[d] # "unprobed"
    /\ cap # None =>
          /\ probeResult[cap] = "ok"
          /\ cap \in camOpen \/ closeEvents > 0
          /\ \A d \in Devices :
                /\ d < cap => probeResult[d] \in {"unopened", "noframe"}
                /\ d > cap => probeResult[d] = "unprobed"
    /\ \A d \in Devices :
          (d # cap /\ probeResult[d] \in {"noframe", "ok"}) =>
              (camReleases[d] = 1 /\ d \notin camOpen)
    /\ (pc \notin {"setup_segmenter", "probe"} /\ cap = None) =>
          /\ \A d \in Devices : probeResult[d] \in {"unopened", "noframe"}
          /\ pc \in {"check_cap", "exited"}
    /\ (timerStarted \/ lastTick.ran) => (cap # None /\ pc \in {"running", "terminated"})
    /\ pc = "exited" => (~timerStarted /\ ~lastTick.ran)

C7_Witness ==
    /\ pc = "running"
    /\ cap = 2
    /\ probeResult[0] = "noframe"
    /\ probeResult[1] = "unopened"
    /\ lastTick.ret

\* C8: the driver leaves Enabled only through a failed inference call; a mask
\* whose shape does not fit the frame does not disable background removal.
C8_OnlyInferenceErrorDisables ==
    (lastTick.enabledBefore /\ ~use_mediapipe) => lastTick.outcome = "inference_error"

\* C9: a tick with a captured frame emits exactly one buffer; the tick whose
\* inference call raises emits the RGB buffer of that same normalized frame;
\* the buffer is RGBA exactly when the segmentation of that tick succeeded.
C9_FrameTickEmitsOnce ==
    lastTick.ret =>
        /\ lastTick.emits = 1
        /\ current_frame.format = lastTick.format
        /\ lastTick.format = "RGBA" <=> lastTick.outcome = "ok"
        /\ lastTick.format # "RGBA" =>
              /\ lastTick.format = "RGB"
              /\ \A p \in OutPix : current_frame.px[p] = BGR2RGB(lastFrame.px[p])

C9_Witness ==
    /\ lastTick.ret
    /\ lastTick.outcome = "inference_error"
    /\ lastTick.emits = 1
    /\ current_frame.format = "RGB"

\* C10: an update_frame that runs after closeEvent gets no frame, makes no
\* segment_for_video call and emits no buffer, enabled or not.
C10_NoWorkAfterClose ==
    lastTick.afterClose =>
        /\ ~lastTick.ret
        /\ ~lastTick.called
        /\ lastTick.emits = 0
        /\ lastTick.format = "none"

C10_Witness ==
    /\ lastTick.afterClose
    /\ lastTick.enabledBefore
    /\ segmenter = "closed"
    /\ cap \notin camOpen
    /\ current_frame.format = "RGBA"

====
